---- MODULE Spec2Model ----
(***************************************************************************)
(* Model of @saimonventura/waba: the broadcast dispatcher                  *)
(* (WhatsApp.broadcastTemplate), the webhook normalizer (parseWebhook),    *)
(* the subscription handshake (verifyWebhook), the error builder           *)
(* (WhatsAppError.fromApiResponse), the request pipeline                   *)
(* (WhatsApp.request) and the webhook signature check.                     *)
(***************************************************************************)
EXTENDS Integers, Sequences, FiniteSets, TLC

VARIABLES
    pc,          \* position of the broadcastTemplate call
    recipients,  \* argument: recipients
    batchSize,   \* const batchSize = options?.batchSize ?? 50
    delayMs,     \* const delayMs = options?.delayMs ?? 100
    i,           \* loop variable of the batch loop
    batchNo,     \* number of batches issued so far
    batch,       \* const batch = recipients.slice(i, i + batchSize)
    sends,       \* every sendTemplate promise created so far, in issue order
    succeeded,   \* result list
    failed,      \* result list
    delays,      \* the pacing delays taken so far (their length in ms)
    outcome,     \* how the broadcastTemplate call ended
    wbody,       \* argument of the parseWebhook call
    wresult,     \* outcome of the parseWebhook call
    vquery,      \* argument of the verifyWebhook call: query
    vtoken,      \* argument of the verifyWebhook call: verifyToken
    vresult,     \* outcome of the verifyWebhook call
    ebody,       \* argument of the fromApiResponse call: body
    estatus,     \* argument of the fromApiResponse call: httpStatus
    eresult,     \* outcome of the fromApiResponse call
    client,      \* the WhatsApp instance: its accessToken and wabaId
    rpc,         \* position of the client: not constructed, idle, awaiting fetch
    rop,         \* the operation invoked last and the outbound calls before it
    lastFetch,   \* the arguments of the latest fetch call
    fetchCount,  \* number of fetch calls made so far
    invocations, \* number of invocations of request so far
    routcome,    \* how the operation invoked last ended
    sbody,       \* raw body of the delivery whose signature is checked
    sheader,     \* signature header of that delivery
    ssecret,     \* app secret the check is made with
    sresult      \* the call made on the delivery and its outcome

bvars == <<pc, recipients, batchSize, delayMs, i, batchNo, batch, sends,
           succeeded, failed, delays, outcome>>
wvars == <<wbody, wresult>>
vvars == <<vquery, vtoken, vresult>>
evars == <<ebody, estatus, eresult>>
rvars == <<client, rpc, rop, lastFetch, fetchCount, invocations, routcome>>
svars == <<sbody, sheader, ssecret, sresult>>
xvars == <<evars, rvars, svars>>
vars == <<bvars, wvars, vvars, xvars>>

(***************************************************************************)
(* JavaScript values.  Every value is a record tagged with its type.       *)
(***************************************************************************)
Null == [t |-> "null"]
Undef == [t |-> "undefined"]
Str(s) == [t |-> "string", v |-> s]
Num(n) == [t |-> "number", v |-> n]
Arr(s) == [t |-> "array", v |-> s]
Obj(f) == [t |-> "object", f |-> f]
EmptyObj == Obj(<<>>)

\* v == null (null or undefined)
IsNullish(v) == v.t \in {"null", "undefined"}

\* ToBoolean(v)
Truthy(v) ==
    CASE v.t \in {"null", "undefined"} -> FALSE
      [] v.t = "string" -> v.v # ""
      [] v.t = "number" -> v.v # 0
      [] OTHER -> TRUE

\* typeof v === "object" (arrays and null included)
TypeofObject(v) == v.t \in {"object", "array", "null"}

\* Array.isArray(v)
IsArray(v) == v.t = "array"

\* v[k] for a non-nullish v and a property name k that no prototype defines
Get(v, k) ==
    IF v.t = "object" /\ k \in DOMAIN v.f THEN v.f[k] ELSE Undef

\* a === b; two objects or arrays of a decoded payload are never the same
\* reference unless they are the same node, which the callers never compare
StrictEq(a, b) ==
    /\ a.t = b.t
    /\ a.t \in {"null", "undefined", "string", "number"}
    /\ a = b

\* a ?? b
Coalesce(a, b) == IF IsNullish(a) THEN b ELSE a

Min(a, b) == IF a < b THEN a ELSE b
Max(a, b) == IF a > b THEN a ELSE b

\* s.slice(start, end) of a JavaScript array (0-based, negative indices
\* count from the end), on a TLA+ sequence
Slice(s, start, end) ==
    LET len == Len(s)
        k == IF start < 0 THEN Max(len + start, 0) ELSE Min(start, len)
        final == IF end < 0 THEN Max(len + end, 0) ELSE Min(end, len)
    IN SubSeq(s, k + 1, final)

BoundedSeq(S, n) == UNION {[1..k -> S] : k \in 0..n}

(***************************************************************************)
(* Broadcast dispatcher                                                    *)
(***************************************************************************)
MaxRecipients == 3
MaxBatchSize == 3
DefaultBatchSize == 50
DefaultDelayMs == 100

Recipients == {"551", "552"}
\* what the caller may pass as options.batchSize and options.delayMs
BatchSizeOptions == {Undef} \cup {Num(b) : b \in 1..MaxBatchSize}
DelayOptions == {Undef, Num(0), Num(5)}
\* what one sendTemplate promise may settle with
SendResults == {"wamid.1", "wamid.2"}
SendErrors == {100, 131}

Pending == [status |-> "pending"]
Fulfilled(v) == [status |-> "fulfilled", value |-> v]
Rejected(e) == [status |-> "rejected", reason |-> e]
Settlements == {Fulfilled(v) : v \in SendResults} \cup {Rejected(e) : e \in SendErrors}

\* the promises of the batch being awaited, in batch order
BatchSends == SubSeq(sends, Len(sends) - Len(batch) + 1, Len(sends))

\* faulty variant: Promise.all(ps), which rejects as soon as one promise rejects
PromiseAll(ps) ==
    IF \E j \in 1..Len(ps) : ps[j].p.status = "rejected"
    THEN Rejected((CHOOSE j \in 1..Len(ps) : ps[j].p.status = "rejected"))
    ELSE IF \E j \in 1..Len(ps) : ps[j].p.status = "pending"
    THEN Pending
    ELSE Fulfilled([j \in 1..Len(ps) |-> ps[j].p])

\* faulty variant: resumes as soon as one promise has settled, with the
\* settlements there are
PromiseSomeSettled(ps) ==
    LET IsSettled(x) == x.p.status # "pending"
        settled == SelectSeq(ps, IsSettled)
    IN IF Len(ps) > 0 /\ settled = <<>>
       THEN Pending
       ELSE Fulfilled([j \in 1..Len(settled) |-> settled[j].p])

\* Promise.allSettled(ps): pending until every promise has settled, then
\* fulfilled with the array of the settlements, in the order of ps
PromiseAllSettled(ps) ==
    IF \E j \in 1..Len(ps) : ps[j].p.status = "pending"
    THEN Pending
    ELSE Fulfilled([j \in 1..Len(ps) |-> ps[j].p])

RECURSIVE CollectFrom(_, _, _, _, _)
\* the for loop over results[j], from index j on
CollectFrom(results, b, j, succ, fail) ==
    IF j > Len(results) THEN [succeeded |-> succ, failed |-> fail]
    ELSE IF results[j].status = "fulfilled"
    THEN CollectFrom(results, b, j + 1,
                     Append(succ, [to |-> b[j], result |-> results[j].value]), fail)
    ELSE CollectFrom(results, b, j + 1,
                     succ, Append(fail, [to |-> b[j], error |-> results[j].reason]))

\* faulty variant: tags the outcome with recipients[j] instead of batch[j]
CollectIndexWholeList(results, b, succ, fail) ==
    CollectFrom(results, recipients, 1, succ, fail)

\* faulty variant: the outcomes of a batch are put in front of the lists
CollectNewestFirst(results, b, succ, fail) ==
    LET c == CollectFrom(results, b, 1, <<>>, <<>>)
    IN [succeeded |-> c.succeeded \o succ, failed |-> c.failed \o fail]

Collect(results, b, succ, fail) == CollectFrom(results, b, 1, succ, fail)

\* faulty variant: recipients.slice(i, batchSize), the end given as a length
BatchOfEndAsLength(rs, idx, size) == Slice(rs, idx, size)

\* faulty variant: recipients.slice(i), everything from i on
BatchOfToEnd(rs, idx, size) == Slice(rs, idx, Len(rs))

\* recipients.slice(i, i + batchSize)
BatchOf(rs, idx, size) == Slice(rs, idx, idx + size)

\* faulty variant: paces after the last batch too
DelayDueAlways(idx, size, len, ms) == ms > 0

\* faulty variant: backs off only after a batch in which a send failed
DelayDueAfterFailure(idx, size, len, ms) ==
    /\ idx + size < len
    /\ ms > 0
    /\ \E s \in 1..Len(sends) : sends[s].p.status = "rejected"

\* i + batchSize < recipients.length && delayMs > 0
DelayDue(idx, size, len, ms) == idx + size < len /\ ms > 0

BInit ==
    /\ pc = "idle"
    /\ recipients = <<>>
    /\ batchSize = DefaultBatchSize
    /\ delayMs = DefaultDelayMs
    /\ i = 0
    /\ batchNo = 0
    /\ batch = <<>>
    /\ sends = <<>>
    /\ succeeded = <<>>
    /\ failed = <<>>
    /\ delays = <<>>
    /\ outcome = "none"

\* the call, up to the first test of the loop condition
BroadcastTemplate(rs, optBatchSize, optDelayMs) ==
    /\ pc = "idle"
    /\ recipients' = rs
    /\ batchSize' = Coalesce(optBatchSize, Num(DefaultBatchSize)).v
    /\ delayMs' = Coalesce(optDelayMs, Num(DefaultDelayMs)).v
    /\ i' = 0
    /\ succeeded' = <<>>
    /\ failed' = <<>>
    /\ pc' = "loop"
    /\ UNCHANGED <<batchNo, batch, sends, delays, outcome>>

\* i < recipients.length: slice the batch and call sendTemplate for each of
\* its members (batch.map runs to its end before anything is awaited)
IssueBatch ==
    /\ pc = "loop"
    /\ i < Len(recipients)
    /\ LET b == BatchOf(recipients, i, batchSize)
       IN /\ batch' = b
          /\ sends' = sends \o [j \in 1..Len(b) |->
                                  [to |-> b[j], batch |-> batchNo, slot |-> j - 1,
                                   p |-> Pending]]
    /\ batchNo' = batchNo + 1
    /\ pc' = "await"
    /\ UNCHANGED <<recipients, batchSize, delayMs, i, succeeded, failed, delays, outcome>>

\* one sendTemplate promise of the batch settles, in any order
Settle(s, o) ==
    /\ pc = "await"
    /\ s \in (Len(sends) - Len(batch) + 1)..Len(sends)
    /\ sends[s].p = Pending
    /\ sends' = [sends EXCEPT ![s].p = o]
    /\ UNCHANGED <<pc, recipients, batchSize, delayMs, i, batchNo, batch,
                   succeeded, failed, delays, outcome>>

\* the await of the combined promise resumes: the outcomes are appended and
\* the loop either paces or goes on to its next iteration
ResumeBatch ==
    /\ pc = "await"
    /\ LET r == PromiseAllSettled(BatchSends)
       IN /\ r.status # "pending"
          /\ IF r.status = "rejected"
             THEN /\ pc' = "done"
                  /\ outcome' = "raised"
                  /\ UNCHANGED <<succeeded, failed, delays, i>>
             ELSE LET c == Collect(r.value, batch, succeeded, failed)
                  IN /\ succeeded' = c.succeeded
                     /\ failed' = c.failed
                     /\ IF DelayDue(i, batchSize, Len(recipients), delayMs)
                        THEN /\ delays' = Append(delays, delayMs)
                             /\ pc' = "delay"
                             /\ i' = i
                        ELSE /\ delays' = delays
                             /\ pc' = "loop"
                             /\ i' = i + batchSize
                     /\ outcome' = outcome
    /\ UNCHANGED <<recipients, batchSize, delayMs, batchNo, batch, sends>>

\* the setTimeout of the pacing delay fires
DelayElapsed ==
    /\ pc = "delay"
    /\ pc' = "loop"
    /\ i' = i + batchSize
    /\ UNCHANGED <<recipients, batchSize, delayMs, batchNo, batch, sends,
                   succeeded, failed, delays, outcome>>

\* the loop condition fails: return { succeeded, failed }
Return ==
    /\ pc = "loop"
    /\ ~(i < Len(recipients))
    /\ pc' = "done"
    /\ outcome' = "returned"
    /\ UNCHANGED <<recipients, batchSize, delayMs, i, batchNo, batch, sends,
                   succeeded, failed, delays>>

CallBroadcast ==
    \E rs \in BoundedSeq(Recipients, MaxRecipients),
       ob \in BatchSizeOptions, od \in DelayOptions :
        BroadcastTemplate(rs, ob, od)

SettleSome ==
    \E s \in 1..Len(sends), o \in Settlements : Settle(s, o)

\* the integers a caller may pass as options.batchSize, which is used
\* without validation: zero and negative ones too
AnyBatchSizeOptions == BatchSizeOptions \cup {Num(0), Num(-1)}

CallBroadcastAnySize ==
    \E rs \in BoundedSeq(Recipients, MaxRecipients),
       ob \in AnyBatchSizeOptions, od \in DelayOptions :
        BroadcastTemplate(rs, ob, od)

\* the iterations of the batch loop whose schedule is recorded; a call with
\* a batch size of 1 or more makes at most MaxRecipients of them
MaxBatches == 4

\* an iteration past the recorded ones. It is reached with a step of 0, where
\* i stays 0 and recipients.slice(0, 0) is empty, or with a negative step
\* once i <= -recipients.length, where slice clamps both ends to 0: the
\* batch is empty, Promise.allSettled([]) is fulfilled with no result,
\* nothing is collected, and i + batchSize < recipients.length holds again
SpinBatch ==
    /\ pc = "loop"
    /\ i < Len(recipients)
    /\ batchNo = MaxBatches
    /\ (batchSize = 0 \/ (batchSize < 0 /\ i <= -Len(recipients)))
    /\ BatchOf(recipients, i, batchSize) = <<>>
    /\ pc' = "spin"
    /\ UNCHANGED <<recipients, batchSize, delayMs, i, batchNo, batch, sends,
                   succeeded, failed, delays, outcome>>

\* the iteration ends (after its delay, when there is one) and the loop
\* condition is evaluated again; i keeps standing for every index at or
\* below -recipients.length, which all slice alike
SpinOn ==
    /\ pc = "spin"
    /\ i + batchSize < Len(recipients)
    /\ pc' = "loop"
    /\ UNCHANGED <<recipients, batchSize, delayMs, i, batchNo, batch, sends,
                   succeeded, failed, delays, outcome>>

(***************************************************************************)
(* Webhook normalizer                                                      *)
(***************************************************************************)
WABA == "whatsapp_business_account"

\* how an evaluation ends: with a value, or by throwing (a TypeError)
Ok(v) == [threw |-> FALSE, value |-> v]
Threw == [threw |-> TRUE]

\* the characters of s; the strings the model iterates have at most one
StrChars(s) == IF s = "" THEN <<>> ELSE <<Str(s)>>

\* for (const x of v): arrays yield their elements, strings their
\* characters, everything else is not iterable
Iterate(v) ==
    CASE v.t = "array" -> Ok(v.v)
      [] v.t = "string" -> Ok(StrChars(v.v))
      [] OTHER -> Threw

\* faulty variant: the entry field is not checked
isValidPayloadNoEntryCheck(body) ==
    IF IsNullish(body) \/ ~TypeofObject(body) THEN FALSE
    ELSE IF ~StrictEq(Get(body, "object"), Str(WABA)) THEN FALSE
    ELSE TRUE

isValidPayload(body) ==
    IF IsNullish(body) \/ ~TypeofObject(body) THEN FALSE
    ELSE IF ~StrictEq(Get(body, "object"), Str(WABA)) THEN FALSE
    ELSE IF ~IsArray(Get(body, "entry")) THEN FALSE
    ELSE TRUE

RECURSIVE FindFrom(_, _, _)
\* contacts.find((c) => c.wa_id === from), from index k on: the element found
\* (undefined when there is none), or a throw on a null or undefined element
FindFrom(cs, k, from) ==
    IF k > Len(cs) THEN Ok(Undef)
    ELSE IF IsNullish(cs[k]) THEN Threw
    ELSE IF StrictEq(Get(cs[k], "wa_id"), from) THEN Ok(cs[k])
    ELSE FindFrom(cs, k + 1, from)

\* faulty variant: no fallback to the first contact
findContactNoFallback(contacts, from) ==
    IF ~IsArray(contacts) THEN Threw
    ELSE LET match == FindFrom(contacts.v, 1, from)
         IN IF match.threw THEN Threw
            ELSE IF Truthy(match.value) THEN match
            ELSE Ok(Obj([profile |-> Obj([name |-> Str("")]), wa_id |-> from]))

\* contacts is whatever value.contacts ?? [] gave: a value without a find
\* method makes the call throw
findContact(contacts, from) ==
    IF ~IsArray(contacts) THEN Threw
    ELSE LET match == FindFrom(contacts.v, 1, from)
         IN IF match.threw THEN Threw
            ELSE IF Truthy(match.value) THEN match
            ELSE IF Len(contacts.v) > 0 THEN Ok(contacts.v[1])
            ELSE Ok(Obj([profile |-> Obj([name |-> Str("")]), wa_id |-> from]))

RECURSIVE MessagesFrom(_, _, _, _, _)
\* for (const msg of value.messages), from index k on
MessagesFrom(msgs, k, contacts, metadata, events) ==
    IF k > Len(msgs) THEN Ok(events)
    ELSE IF IsNullish(msgs[k]) THEN Threw
    ELSE LET contact == findContact(contacts, Get(msgs[k], "from"))
         IN IF contact.threw THEN Threw
            ELSE MessagesFrom(msgs, k + 1, contacts, metadata,
                     Append(events, [type |-> "message", message |-> msgs[k],
                                     contact |-> contact.value, metadata |-> metadata]))

RECURSIVE StatusesFrom(_, _, _, _)
\* for (const status of value.statuses), from index k on
StatusesFrom(sts, k, metadata, events) ==
    IF k > Len(sts) THEN events
    ELSE StatusesFrom(sts, k + 1, metadata,
             Append(events, [type |-> "status", status |-> sts[k], metadata |-> metadata]))

\* the Messages block of one value
PushMessages(value, metadata, events) ==
    LET messages == Get(value, "messages")
    IN IF Truthy(messages) /\ IsArray(messages)
       THEN MessagesFrom(messages.v, 1, Coalesce(Get(value, "contacts"), Arr(<<>>)),
                         metadata, events)
       ELSE Ok(events)

RECURSIVE StatusesOnceFrom(_, _, _, _)
\* faulty variant: a status already reported in an earlier event is skipped
StatusesOnceFrom(sts, k, metadata, events) ==
    IF k > Len(sts) THEN events
    ELSE IF \E e \in 1..Len(events) : events[e].type = "status" /\ events[e].status = sts[k]
    THEN StatusesOnceFrom(sts, k + 1, metadata, events)
    ELSE StatusesOnceFrom(sts, k + 1, metadata,
             Append(events, [type |-> "status", status |-> sts[k], metadata |-> metadata]))
PushStatusesOnce(value, metadata, events) ==
    LET statuses == Get(value, "statuses")
    IN IF Truthy(statuses) /\ IsArray(statuses)
       THEN StatusesOnceFrom(statuses.v, 1, metadata, events)
       ELSE events

\* the Statuses block of one value
PushStatuses(value, metadata, events) ==
    LET statuses == Get(value, "statuses")
    IN IF Truthy(statuses) /\ IsArray(statuses)
       THEN StatusesFrom(statuses.v, 1, metadata, events)
       ELSE events

\* faulty variant: an empty errors list is reported too
PushErrorsEvenEmpty(value, metadata, events) ==
    LET errors == Get(value, "errors")
    IN IF Truthy(errors) /\ IsArray(errors)
       THEN Append(events, [type |-> "error", errors |-> errors, metadata |-> metadata])
       ELSE events

\* the Errors block of one value
PushErrors(value, metadata, events) ==
    LET errors == Get(value, "errors")
    IN IF Truthy(errors) /\ IsArray(errors) /\ Len(errors.v) > 0
       THEN Append(events, [type |-> "error", errors |-> errors, metadata |-> metadata])
       ELSE events

\* faulty variant: the statuses of a value are emitted before its messages
ValueEventsStatusesFirst(value, metadata, events) ==
    LET m == PushMessages(value, metadata, PushStatuses(value, metadata, events))
    IN IF m.threw THEN Threw
       ELSE Ok(PushErrors(value, metadata, m.value))

\* the three blocks of one value, in the order of the code
ValueEvents(value, metadata, events) ==
    LET m == PushMessages(value, metadata, events)
    IN IF m.threw THEN Threw
       ELSE Ok(PushErrors(value, metadata, PushStatuses(value, metadata, m.value)))

\* the body of the loop over the changes: const { value } = change throws on
\* a null or undefined change, value.metadata on a null or undefined value
ParseChange(change, events) ==
    IF IsNullish(change) THEN Threw
    ELSE LET value == Get(change, "value")
         IN IF IsNullish(value) THEN Threw
            ELSE ValueEvents(value, Get(value, "metadata"), events)

RECURSIVE ChangesFrom(_, _, _)
\* for (const change of entry.changes), from index k on
ChangesFrom(changes, k, events) ==
    IF k > Len(changes) THEN Ok(events)
    ELSE LET r == ParseChange(changes[k], events)
         IN IF r.threw THEN Threw ELSE ChangesFrom(changes, k + 1, r.value)

\* the body of the loop over the entries: entry.changes throws on a null or
\* undefined entry, the for-of on a value that is not iterable
ParseEntry(entry, events) ==
    IF IsNullish(entry) THEN Threw
    ELSE LET changes == Iterate(Get(entry, "changes"))
         IN IF changes.threw THEN Threw
            ELSE ChangesFrom(changes.value, 1, events)

RECURSIVE EntriesFrom(_, _, _)
\* for (const entry of payload.entry), from index k on
EntriesFrom(entries, k, events) ==
    IF k > Len(entries) THEN Ok(events)
    ELSE LET r == ParseEntry(entries[k], events)
         IN IF r.threw THEN Threw ELSE EntriesFrom(entries, k + 1, r.value)

parseWebhook(body) ==
    IF ~isValidPayload(body) THEN Ok(<<>>)
    ELSE LET entries == Iterate(Get(body, "entry"))
         IN IF entries.threw THEN Threw
            ELSE EntriesFrom(entries.value, 1, <<>>)

(***************************************************************************)
(* The payloads the normalizer is applied to                               *)
(***************************************************************************)
MaxMessages == 2
MaxStatuses == 2
MaxEntries == 2
MaxChanges == 2

Meta1 == Obj([display_phone_number |-> Str("15550001"), phone_number_id |-> Str("PN1")])
Meta2 == Obj([display_phone_number |-> Str("15550002"), phone_number_id |-> Str("PN2")])
Contact(name, id) == Obj([profile |-> Obj([name |-> Str(name)]), wa_id |-> Str(id)])
Message(from, id) == Obj([from |-> Str(from), id |-> Str(id), type |-> Str("text")])
Err1 == Obj([code |-> Num(131000), title |-> Str("Something went wrong")])
Err2 == Obj([code |-> Num(130429), title |-> Str("Rate limit hit")])
StatusDelivered == Obj([id |-> Str("wamid.s1"), status |-> Str("delivered"), recipient_id |-> Str("A")])
StatusFailed == Obj([id |-> Str("wamid.s2"), status |-> Str("failed"), recipient_id |-> Str("B"),
                     errors |-> Arr(<<Err1>>)])

\* a field that is absent reads as undefined
Value(metadata, contacts, messages, statuses, errors) ==
    Obj([metadata |-> metadata, contacts |-> contacts, messages |-> messages,
         statuses |-> statuses, errors |-> errors])
Change(value) == Obj([value |-> value, field |-> Str("messages")])
Entry(changes) == Obj([id |-> Str("WABA_ID"), changes |-> Arr(changes)])
Envelope(entries) == Obj([object |-> Str(WABA), entry |-> Arr(entries)])

Messages == {Message("A", "wamid.m1"), Message("B", "wamid.m2")}
Statuses == {StatusDelivered, StatusFailed}
MessageLists == {Undef} \cup {Arr(ms) : ms \in BoundedSeq(Messages, MaxMessages)}
StatusLists == {Undef} \cup {Arr(ss) : ss \in BoundedSeq(Statuses, MaxStatuses)}
ContactLists ==
    {Undef, Arr(<<>>), Arr(<<Contact("Cy", "C")>>),
     Arr(<<Contact("Bob", "B"), Contact("Ann", "A"), Contact("Ann2", "A")>>),
     Arr(<<Contact("Cy", "C"), Contact("Bob", "B")>>)}
ErrorLists == {Undef, Arr(<<>>), Arr(<<Err1>>), Arr(<<Err1, Err2>>)}

\* well-formed payloads with one entry, one change, one value
SingleValues ==
    {Value(Meta1, cs, ms, ss, es) :
        cs \in ContactLists, ms \in MessageLists, ss \in StatusLists, es \in ErrorLists}
SinglePayloads == {Envelope(<<Entry(<<Change(v)>>)>>) : v \in SingleValues}

\* well-formed payloads with several entries and changes
BlockValues ==
    {Value(Meta1, Arr(<<Contact("Ann", "A")>>), Arr(<<Message("A", "wamid.m1")>>),
           Arr(<<StatusDelivered>>), Undef),
     Value(Meta2, Undef, Undef, Arr(<<StatusFailed>>), Arr(<<Err1>>))}
BlockEntries == {Entry(cs) : cs \in BoundedSeq({Change(v) : v \in BlockValues}, MaxChanges)}
BlockPayloads == {Envelope(es) : es \in BoundedSeq(BlockEntries, MaxEntries)}

\* values that are not what the payload type declares at their place
Junk == {Null, Undef, Str(""), Str("x"), Num(0), Num(7), EmptyObj, Arr(<<>>)}
JunkLists == {Arr(<<j>>) : j \in {Null, Undef, Str("x"), Num(0), EmptyObj}}

\* bodies that do not match the envelope
NonEnvelopes ==
    Junk
    \cup {Arr(<<Str(WABA)>>), Str(WABA)}
    \cup {Obj([object |-> o]) : o \in {Str("other"), Str(WABA), Null, Num(1)}}
    \cup {Obj([entry |-> Arr(<<>>)]), Obj([object |-> Str("other"), entry |-> Arr(<<>>)]),
          Obj([object |-> Str("other"),
               entry |-> Arr(<<Entry(<<Change(Value(Meta1, Undef,
                                   Arr(<<Message("A", "wamid.m1")>>), Undef, Undef))>>)>>)])}
    \cup {Obj([object |-> Str(WABA), entry |-> j]) : j \in Junk \ {Arr(<<>>)}}

\* bodies that match the envelope and are malformed below it
BaseValue ==
    [metadata |-> Meta1, contacts |-> Arr(<<Contact("Ann", "A")>>),
     messages |-> Arr(<<Message("A", "wamid.m1")>>),
     statuses |-> Arr(<<StatusDelivered>>), errors |-> Arr(<<Err1>>)]
Malformed ==
    {Envelope(<<j>>) : j \in Junk}
    \cup {Envelope(<<Entry(<<Change(Obj(BaseValue))>>), j>>) : j \in Junk}
    \cup {Envelope(<<Obj([changes |-> j])>>) : j \in Junk}
    \cup {Envelope(<<Entry(<<j>>)>>) : j \in Junk}
    \cup {Envelope(<<Entry(<<Obj([value |-> j])>>)>>) : j \in Junk}
    \cup {Envelope(<<Entry(<<Change(Obj([BaseValue EXCEPT ![k] = j]))>>)>>) :
            k \in DOMAIN BaseValue, j \in Junk \cup JunkLists}
    \cup {Envelope(<<Entry(<<Change(Obj([BaseValue EXCEPT !.contacts = j, !.messages = Arr(<<>>)]))>>)>>) :
            j \in Junk \cup JunkLists}

Bodies == SinglePayloads \cup BlockPayloads \cup NonEnvelopes \cup Malformed

WInit == wbody = Undef /\ wresult = [state |-> "idle"]

\* one call of parseWebhook
ParseWebhook(body) ==
    /\ wresult.state = "idle"
    /\ wbody' = body
    /\ wresult' = [state |-> "done", r |-> parseWebhook(body)]

CallParseWebhook == \E body \in Bodies : ParseWebhook(body)

(***************************************************************************)
(* Subscription handshake                                                  *)
(***************************************************************************)
\* faulty variant: the challenge is not required to be present
verifyWebhookAnyChallenge(query, verifyToken) ==
    LET mode == Get(query, "hub.mode")
        token == Get(query, "hub.verify_token")
        challenge == Get(query, "hub.challenge")
    IN IF StrictEq(mode, Str("subscribe")) /\ StrictEq(token, verifyToken)
       THEN [threw |-> FALSE, value |-> challenge]
       ELSE [threw |-> TRUE, message |-> "Webhook verification failed"]

verifyWebhook(query, verifyToken) ==
    LET mode == Get(query, "hub.mode")
        token == Get(query, "hub.verify_token")
        challenge == Get(query, "hub.challenge")
    IN IF StrictEq(mode, Str("subscribe")) /\ StrictEq(token, verifyToken)
          /\ Truthy(challenge)
       THEN [threw |-> FALSE, value |-> challenge]
       ELSE [threw |-> TRUE, message |-> "Webhook verification failed"]

\* what a handshake request may carry for each key (undefined: key absent)
Modes == {Undef, Str("subscribe"), Str("unsubscribe"), Str("Subscribe"), Str("")}
Tokens == {Str("T"), Str("X"), Str("")}
Challenges == {Undef, Str(""), Str("C"), Str("0")}
Queries ==
    {Obj([k \in {"hub.mode", "hub.verify_token", "hub.challenge"} |->
            CASE k = "hub.mode" -> m [] k = "hub.verify_token" -> t [] OTHER -> c]) :
        m \in Modes, t \in Tokens \cup {Undef}, c \in Challenges}

VInit == vquery = EmptyObj /\ vtoken = Undef /\ vresult = [state |-> "idle"]

\* one call of verifyWebhook
VerifyWebhook(query, verifyToken) ==
    /\ vresult.state = "idle"
    /\ vquery' = query
    /\ vtoken' = verifyToken
    /\ vresult' = [state |-> "done", r |-> verifyWebhook(query, verifyToken)]

CallVerifyWebhook == \E q \in Queries, t \in Tokens : VerifyWebhook(q, t)

(***************************************************************************)
(* Error taxonomy builder                                                  *)
(***************************************************************************)
\* a || b
Or(a, b) == IF Truthy(a) THEN a ELSE b

\* String(v), also what a template literal puts in for v
ToStr(v) ==
    CASE v.t = "undefined" -> "undefined"
      [] v.t = "null" -> "null"
      [] v.t = "string" -> v.v
      [] v.t = "number" -> ToString(v.v)
      [] v.t = "array" /\ v.v = <<>> -> ""
      [] OTHER -> "[object Object]"

\* new WhatsAppError(options); Error's constructor keeps the message as a string
WhatsAppError(message, code, title, httpStatus, details) ==
    [name |-> "WhatsAppError", message |-> Str(ToStr(message)), code |-> code,
     title |-> title, httpStatus |-> httpStatus, details |-> details]

\* body?.error || {}
VendorError(body) ==
    Or(IF IsNullish(body) THEN Undef ELSE Get(body, "error"), EmptyObj)

\* faulty variant: body.error, which throws on a null or undefined body
fromApiResponseNoOptionalChain(body, httpStatus) ==
    IF IsNullish(body) THEN Threw
    ELSE LET err == Or(Get(body, "error"), EmptyObj)
         IN Ok(WhatsAppError(
                Or(Get(err, "message"), Str("Unknown WhatsApp API error")),
                Or(Get(err, "code"), Num(0)),
                IF Truthy(Get(err, "error_subcode"))
                THEN Str(ToStr(Get(err, "code")) \o "/" \o ToStr(Get(err, "error_subcode")))
                ELSE Str(ToStr(Or(Get(err, "code"), Str("unknown")))),
                httpStatus,
                IF Truthy(Get(err, "fbtrace_id"))
                THEN Str("fbtrace_id: " \o ToStr(Get(err, "fbtrace_id")))
                ELSE Undef))

fromApiResponse(body, httpStatus) ==
    LET err == VendorError(body)
    IN Ok(WhatsAppError(
           Or(Get(err, "message"), Str("Unknown WhatsApp API error")),
           Or(Get(err, "code"), Num(0)),
           IF Truthy(Get(err, "error_subcode"))
           THEN Str(ToStr(Get(err, "code")) \o "/" \o ToStr(Get(err, "error_subcode")))
           ELSE Str(ToStr(Or(Get(err, "code"), Str("unknown")))),
           httpStatus,
           IF Truthy(Get(err, "fbtrace_id"))
           THEN Str("fbtrace_id: " \o ToStr(Get(err, "fbtrace_id")))
           ELSE Undef))

\* the vendor error objects: every field absent (undefined) or present
VendorCodes == {Undef, Num(0), Num(100), Num(131030)}
VendorSubcodes == {Undef, Num(0), Num(33), Num(2494010)}
VendorMessages == {Undef, Str(""), Str("(#131030) Recipient phone number not in allowed list")}
VendorTraces == {Undef, Str("abc123")}
VendorErrors ==
    {Obj([message |-> m, code |-> c, error_subcode |-> sc, fbtrace_id |-> tr]) :
        m \in VendorMessages, c \in VendorCodes, sc \in VendorSubcodes, tr \in VendorTraces}
\* the bodies a failed response may decode to
ErrorBodies ==
    {Null, Undef, EmptyObj, Str("Bad Gateway"), Num(5), Arr(<<>>),
     Obj([error |-> Null]), Obj([error |-> Str("oops")]), Obj([error |-> EmptyObj]),
     Obj([data |-> Arr(<<>>)])}
    \cup {Obj([error |-> e]) : e \in VendorErrors}
FailureStatuses == {400, 401, 429, 500}

EInit == ebody = Undef /\ estatus = 0 /\ eresult = [state |-> "idle"]

\* one call of WhatsAppError.fromApiResponse
FromApiResponse(body, httpStatus) ==
    /\ eresult.state = "idle"
    /\ ebody' = body
    /\ estatus' = httpStatus
    /\ eresult' = [state |-> "done", r |-> fromApiResponse(body, httpStatus)]

CallFromApiResponse ==
    \E body \in ErrorBodies, st \in FailureStatuses : FromApiResponse(body, st)

(***************************************************************************)
(* Request pipeline                                                        *)
(***************************************************************************)
MaxInvocations == 2

GRAPH_URL == "https://graph.facebook.com"
DEFAULT_API_VERSION == "v25.0"

\* new WhatsApp(config)
NewWhatsApp(config) ==
    [phoneNumberId |-> config.phoneNumberId, accessToken |-> config.accessToken,
     apiVersion |-> Or(config.apiVersion, Str(DEFAULT_API_VERSION)).v,
     wabaId |-> config.wabaId]

\* the getter baseUrl of the client c
baseUrl(c) == GRAPH_URL \o "/" \o c.apiVersion

\* s.includes(sub)
Includes(s, sub) ==
    \E k \in 1..(Len(s) - Len(sub) + 1) : SubSeq(s, k, k + Len(sub) - 1) = sub

\* { ...a, ...b } on maps from keys to values
Spread(a, b) ==
    [k \in DOMAIN a \cup DOMAIN b |-> IF k \in DOMAIN b THEN b[k] ELSE a[k]]

\* a multipart form (an instance of FormData)
FormData(parts) == [t |-> "formdata", parts |-> parts]

\* the order in which the object literals of the callers of request list
\* their members ({ name, categories }); an object of the model does not
\* record the order of its members
KeyOrder == <<"name", "categories">>
KeyRank(k) ==
    IF \E n \in 1..Len(KeyOrder) : KeyOrder[n] = k
    THEN CHOOSE n \in 1..Len(KeyOrder) : KeyOrder[n] = k
    ELSE Len(KeyOrder) + 1

RECURSIVE JsonStringify(_), JsonMembers(_, _), JsonElements(_, _)
\* the members of an object, from the keys not yet written (a member whose
\* value is undefined is left out by the callers), in the order of their
\* insertion where that is known
JsonMembers(f, keys) ==
    IF keys = {} THEN ""
    ELSE LET k == CHOOSE x \in keys : \A y \in keys : KeyRank(x) <= KeyRank(y)
         IN "\"" \o k \o "\":" \o JsonStringify(f[k])
            \o (IF keys = {k} THEN "" ELSE "," \o JsonMembers(f, keys \ {k}))
\* the elements of an array, from index k on
JsonElements(a, k) ==
    IF k > Len(a) THEN ""
    ELSE (IF a[k].t = "undefined" THEN "null" ELSE JsonStringify(a[k]))
         \o (IF k = Len(a) THEN "" ELSE "," \o JsonElements(a, k + 1))
\* JSON.stringify(v) for a v that is not undefined
JsonStringify(v) ==
    CASE v.t = "null" -> "null"
      [] v.t = "string" -> "\"" \o v.v \o "\""
      [] v.t = "number" -> ToString(v.v)
      [] v.t = "array" -> "[" \o JsonElements(v.v, 1) \o "]"
      [] OTHER -> "{" \o JsonMembers(v.f, {k \in DOMAIN v.f : v.f[k].t # "undefined"}) \o "}"

\* faulty variant: the caller's headers come first, the credential last
\* (kept for comparison with the order of the code)
RequestHeadersCredentialLast(accessToken, options) ==
    LET extra == IF IsNullish(options.headers) THEN <<>> ELSE options.headers.f
    IN Spread(extra, [Authorization |-> "Bearer " \o accessToken])

\* { "Authorization": `Bearer ${this.accessToken}`, ...options?.headers }
RequestHeaders(accessToken, options) ==
    LET extra == IF IsNullish(options.headers) THEN <<>> ELSE options.headers.f
    IN Spread([Authorization |-> "Bearer " \o accessToken], extra)

\* faulty variant: every body is announced as JSON, a form included
FetchArgsFormAsJson(c, path, options) ==
    LET url == baseUrl(c) \o "/" \o path
        method == Or(options.method, Str("POST")).v
        headers == Spread(RequestHeaders(c.accessToken, options),
                          [k \in {"Content-Type"} |-> "application/json"])
    IN IF options.body.t # "undefined"
       THEN IF options.body.t = "formdata"
            THEN [url |-> url, method |-> method, headers |-> headers, body |-> options.body]
            ELSE [url |-> url, method |-> method, headers |-> headers,
                  body |-> Str(JsonStringify(options.body))]
       ELSE [url |-> url, method |-> method,
             headers |-> RequestHeaders(c.accessToken, options), body |-> Undef]

\* request, up to the call of fetch: the arguments fetch is called with (an
\* absent body is the field body being undefined)
FetchArgs(c, path, options) ==
    LET url == baseUrl(c) \o "/" \o path
        method == Or(options.method, Str("POST")).v
        headers == RequestHeaders(c.accessToken, options)
    IN IF options.body.t # "undefined"
       THEN IF options.body.t = "formdata"
            THEN [url |-> url, method |-> method, headers |-> headers, body |-> options.body]
            ELSE [url |-> url, method |-> method,
                  headers |-> Spread(headers, [k \in {"Content-Type"} |-> "application/json"]),
                  body |-> Str(JsonStringify(options.body))]
       ELSE [url |-> url, method |-> method, headers |-> headers, body |-> Undef]

\* how an invocation ends
Resolves(v) == [kind |-> "returned", value |-> v]
Rejects(e) == [kind |-> "raised", error |-> e]
\* what fetch rejects with, and what response.json() rejects with
TransportError == [name |-> "TypeError", message |-> Str("fetch failed")]
DecodeError == [name |-> "SyntaxError", message |-> Str("Unexpected end of JSON input")]

\* response.ok
ResponseOk(response) == 200 <= response.status /\ response.status <= 299

\* faulty variant: the body is inspected before the content type, and a 2xx
\* body holding an error object is raised as an error
ClassifyByBody(response) ==
    LET contentType == Or(response.contentType, Str("")).v
    IN IF ~ResponseOk(response) \/ (~response.json.threw /\ Truthy(Get(response.json.value, "error")))
       THEN Rejects(fromApiResponse(IF response.json.threw THEN EmptyObj
                                   ELSE response.json.value, response.status).value)
       ELSE IF Includes(contentType, "application/json")
       THEN IF response.json.threw THEN Rejects(DecodeError)
            ELSE Resolves(response.json.value)
       ELSE Resolves(response)

\* faulty variant: the undecodable error body is not caught
ClassifyNoCatch(response) ==
    LET contentType == Or(response.contentType, Str("")).v
    IN IF ~ResponseOk(response)
       THEN IF response.json.threw THEN Rejects(DecodeError)
            ELSE Rejects(fromApiResponse(response.json.value, response.status).value)
       ELSE IF Includes(contentType, "application/json")
       THEN IF response.json.threw THEN Rejects(DecodeError)
            ELSE Resolves(response.json.value)
       ELSE Resolves(response)

\* request, after fetch has resolved with response
Classify(response) ==
    LET contentType == Or(response.contentType, Str("")).v
    IN IF ~ResponseOk(response)
       THEN LET errorBody == IF response.json.threw THEN EmptyObj ELSE response.json.value
            IN Rejects(fromApiResponse(errorBody, response.status).value)
       ELSE IF Includes(contentType, "application/json")
       THEN IF response.json.threw THEN Rejects(DecodeError)
            ELSE Resolves(response.json.value)
       ELSE Resolves(response)

\* the call of fetch: the number of calls made and the latest call, after
\* request has called fetch with args
\* faulty variant: a call equal to the latest one is answered from a cache
IssueFetchCached(count, last, args) ==
    IF last = args THEN [count |-> count, last |-> last]
    ELSE [count |-> count + 1, last |-> args]

IssueFetch(count, last, args) == [count |-> count + 1, last |-> args]

\* an Error thrown with new Error(message)
Error(message) == [name |-> "Error", message |-> Str(message)]

\* the configurations clients are constructed from
AccessTokens == {"TOKEN_A", "TOKEN_B"}
WabaIds == {Undef, Str(""), Str("WABA_1")}
Configs ==
    {[phoneNumberId |-> "PHONE_1", accessToken |-> a, apiVersion |-> Undef, wabaId |-> w] :
        a \in AccessTokens, w \in WabaIds}

\* the options request is called with; request(path) without options is the
\* record with every field undefined
NoOptions == [method |-> Undef, body |-> Undef, headers |-> Undef]
Methods == {Undef, Str(""), Str("GET")}
RequestBodies ==
    {Undef, Null, FormData("file"), Obj([messaging_product |-> Str("whatsapp")])}
ExtraHeaders ==
    {Undef, Obj([k \in {"X-Custom"} |-> "1"]), Obj([Authorization |-> "Basic abc"]),
     Obj([k \in {"Content-Type"} |-> "text/plain"])}
RequestOptions ==
    {[method |-> m, body |-> b, headers |-> h] :
        m \in Methods, b \in RequestBodies, h \in ExtraHeaders}
Paths == {"PHONE_1/messages"}

\* the responses fetch may resolve with: status, content-type header (null
\* when missing) and what response.json() gives
HttpStatuses == {200, 299, 300, 500}
ContentTypes ==
    {Null, Str("application/json"), Str("application/json; charset=utf-8"), Str("text/html")}
JsonOutcomes ==
    {Threw, Ok(Null), Ok(EmptyObj),
     Ok(Obj([messages |-> Arr(<<Obj([id |-> Str("wamid.1")])>>)])),
     Ok(Obj([error |-> Obj([message |-> Str("Invalid parameter"), code |-> Num(100)])]))}
Responses ==
    {[status |-> st, contentType |-> ct, json |-> j] :
        st \in HttpStatuses, ct \in ContentTypes, j \in JsonOutcomes}

\* the operations that need the account identifier
WabaOps ==
    {"listTemplates", "createTemplate", "deleteTemplate", "getHealthStatus",
     "listPhoneNumbers", "createFlow", "listFlows", "getAnalytics",
     "getConversationAnalytics", "getTemplateAnalytics"}

\* the message of the error an operation throws without wabaId
WabaRequired(op) ==
    "wabaId is required for " \o
    (CASE op \in {"listTemplates", "createTemplate", "deleteTemplate"} -> "template management"
       [] op = "getHealthStatus" -> "health status"
       [] op = "listPhoneNumbers" -> "listing phone numbers"
       [] op \in {"createFlow", "listFlows"} -> "flow management"
       [] OTHER -> "analytics")

Get_(path) == [path |-> path, options |-> [NoOptions EXCEPT !.method = Str("GET")]]
\* the call of request an operation makes with wabaId w, for the arguments
\* name "hello", start 1, end 2, no filters, no template ids
WabaCall(op, w) ==
    CASE op = "listTemplates" -> Get_(w \o "/message_templates")
      [] op = "createTemplate" ->
            [path |-> w \o "/message_templates",
             options |-> [NoOptions EXCEPT !.body = Obj([name |-> Str("hello")])]]
      [] op = "deleteTemplate" ->
            [path |-> w \o "/message_templates?name=hello",
             options |-> [NoOptions EXCEPT !.method = Str("DELETE")]]
      [] op = "getHealthStatus" -> Get_(w \o "?fields=health_status")
      [] op = "listPhoneNumbers" -> Get_(w \o "/phone_numbers")
      [] op = "createFlow" ->
            [path |-> w \o "/flows",
             options |-> [NoOptions EXCEPT
                !.body = Obj([name |-> Str("hello"), categories |-> Arr(<<Str("OTHER")>>)])]]
      [] op = "listFlows" -> Get_(w \o "/flows")
      [] op = "getAnalytics" ->
            Get_(w \o "?fields=analytics.start(" \o ToString(1) \o ").end(" \o ToString(2)
                 \o ").granularity(DAY).phone_numbers([]).country_codes([])")
      [] op = "getConversationAnalytics" ->
            Get_(w \o "?fields=conversation_analytics.start(" \o ToString(1) \o ").end("
                 \o ToString(2) \o ").granularity(DAILY).conversation_directions([])"
                 \o ".conversation_types([]).dimensions([])")
      [] OTHER ->
            Get_(w \o "?fields=template_analytics.start(" \o ToString(1) \o ").end("
                 \o ToString(2) \o ")")

NoFetch == [state |-> "none"]
RInit ==
    /\ client = [constructed |-> FALSE]
    /\ rpc = "new"
    /\ rop = [op |-> "", path |-> "", options |-> NoOptions, before |-> 0, fetched |-> NoFetch]
    /\ lastFetch = [made |-> FALSE]
    /\ fetchCount = 0
    /\ invocations = 0
    /\ routcome = [kind |-> "none"]

\* const wa = new WhatsApp(config)
Construct(config) ==
    /\ rpc = "new"
    /\ client' = NewWhatsApp(config)
    /\ rpc' = "idle"
    /\ UNCHANGED <<rop, lastFetch, fetchCount, invocations, routcome>>

\* request(path, options) up to its await of fetch, called by op
Request(op, path, options) ==
    LET issued == IssueFetch(fetchCount, lastFetch, FetchArgs(client, path, options))
    IN /\ invocations < MaxInvocations
       /\ invocations' = invocations + 1
       /\ fetchCount' = issued.count
       /\ lastFetch' = issued.last
       /\ rop' = [op |-> op, path |-> path, options |-> options, before |-> fetchCount,
                  fetched |-> [state |-> "pending"]]
       /\ routcome' = [kind |-> "pending"]
       /\ rpc' = "fetching"
       /\ UNCHANGED client

\* a call of request with any path and options
CallRequest ==
    /\ rpc = "idle"
    /\ \E path \in Paths, options \in RequestOptions : Request("request", path, options)

\* faulty variant: the operation does not test wabaId before calling request
CallWabaOpUnguarded(op) ==
    /\ rpc = "idle"
    /\ LET call == WabaCall(op, ToStr(client.wabaId))
       IN Request(op, call.path, call.options)

\* a call of one of the operations that need the account identifier
CallWabaOp(op) ==
    /\ rpc = "idle"
    /\ IF ~Truthy(client.wabaId)
       THEN /\ rop' = [op |-> op, path |-> "", options |-> NoOptions, before |-> fetchCount,
                       fetched |-> NoFetch]
            /\ routcome' = Rejects(Error(WabaRequired(op)))
            /\ UNCHANGED <<client, rpc, lastFetch, fetchCount, invocations>>
       ELSE LET call == WabaCall(op, client.wabaId.v)
            IN Request(op, call.path, call.options)

\* fetch resolves with response and request runs to its end
FetchResolves(response) ==
    /\ rpc = "fetching"
    /\ routcome' = Classify(response)
    /\ rop' = [rop EXCEPT !.fetched = [state |-> "resolved", response |-> response]]
    /\ rpc' = "idle"
    /\ UNCHANGED <<client, lastFetch, fetchCount, invocations>>

\* faulty variant: the rejection is caught and converted by fromApiResponse
FetchRejectsConverted ==
    /\ rpc = "fetching"
    /\ routcome' = Rejects(fromApiResponse(EmptyObj, 0).value)
    /\ rop' = [rop EXCEPT !.fetched = [state |-> "rejected"]]
    /\ rpc' = "idle"
    /\ UNCHANGED <<client, lastFetch, fetchCount, invocations>>

\* fetch rejects and the rejection leaves request
FetchRejects ==
    /\ rpc = "fetching"
    /\ routcome' = Rejects(TransportError)
    /\ rop' = [rop EXCEPT !.fetched = [state |-> "rejected"]]
    /\ rpc' = "idle"
    /\ UNCHANGED <<client, lastFetch, fetchCount, invocations>>

NextRequest ==
    \/ (\E config \in Configs : Construct(config)) /\ UNCHANGED <<bvars, wvars, vvars, evars, svars>>
    \/ CallRequest /\ UNCHANGED <<bvars, wvars, vvars, evars, svars>>
    \/ (\E op \in WabaOps : CallWabaOp(op)) /\ UNCHANGED <<bvars, wvars, vvars, evars, svars>>
    \/ (\E response \in Responses : FetchResolves(response))
       /\ UNCHANGED <<bvars, wvars, vvars, evars, svars>>
    \/ FetchRejects /\ UNCHANGED <<bvars, wvars, vvars, evars, svars>>

(***************************************************************************)
(* Webhook signature check                                                 *)
(***************************************************************************)
\* the payloads signed deliveries carry
SignedPayloads ==
    {Envelope(<<>>), Obj([object |-> Str("other")]),
     Envelope(<<Entry(<<Change(Obj(BaseValue))>>)>>), Envelope(<<Null>>)}
\* the raw bodies of these deliveries: their JSON texts
JsonBodies == {JsonStringify(p) : p \in SignedPayloads}
\* JSON.parse(text), for the texts of the payloads above
JsonParse(text) ==
    IF text \in JsonBodies
    THEN Ok(CHOOSE p \in SignedPayloads : JsonStringify(p) = text)
    ELSE Threw

\* the raw bodies a signature is checked on
Tampered == JsonStringify(Envelope(<<>>)) \o "tampered"
RawBodies == JsonBodies \cup {"test", Tampered}
Secrets == {"my-app-secret", "other-secret"}

\* some fixed order of the members of a set
RECURSIVE Listing(_)
Listing(set) ==
    IF set = {} THEN <<>>
    ELSE LET x == CHOOSE y \in set : TRUE IN <<x>> \o Listing(set \ {x})
IndexIn(seq, x) == CHOOSE k \in 1..Len(seq) : seq[k] = x

HexDigits == "0123456789abcdef"
\* the two hex digits of the byte n
HexByte(n) ==
    SubSeq(HexDigits, (n \div 16) + 1, (n \div 16) + 1) \o SubSeq(HexDigits, (n % 16) + 1, (n % 16) + 1)

\* createHmac("sha256", secret).update(body).digest("hex"): a keyed hash,
\* taken to be free of collisions on the secrets and bodies above (the
\* digest is cut to three bytes)
HmacSha256Hex(secret, body) ==
    LET si == IndexIn(Listing(Secrets), secret)
        bi == IndexIn(Listing(RawBodies), body)
    IN HexByte((37 * si + 11 * bi) % 256) \o HexByte((101 * bi + 7 * si + 3) % 256)
       \o HexByte(16 * si + bi)

\* the signature a sender holding secret puts on body
Sign(body, secret) == "sha256=" \o HmacSha256Hex(secret, body)

\* the signature headers a delivery may come with
SignatureHeaders ==
    {Sign(b, k) : b \in RawBodies, k \in Secrets}
    \cup {HmacSha256Hex(k, b) : b \in RawBodies, k \in Secrets}
    \cup {"sha256=invalid", "sha256=", ""}

\* faulty variant: the digests are compared in constant time, which throws
\* when the two lengths differ, and the prefix is not required
validateSignatureDigestOnly(rawBody, signature, appSecret) ==
    LET digest == HmacSha256Hex(appSecret, rawBody)
        given == IF Len(signature) >= 7 /\ SubSeq(signature, 1, 7) = "sha256="
                 THEN SubSeq(signature, 8, Len(signature)) ELSE signature
    IN IF Len(given) # Len(digest) THEN Threw ELSE Ok(given = digest)

\* validateSignature(rawBody, signature, appSecret)
validateSignature(rawBody, signature, appSecret) ==
    Ok(signature = "sha256=" \o HmacSha256Hex(appSecret, rawBody))

\* faulty variant: a delivery that fails the check gives an empty list
parseWebhookWithSignatureQuiet(rawBody, signature, appSecret) ==
    IF ~validateSignature(rawBody, signature, appSecret).value
    THEN Ok(<<>>)
    ELSE LET body == JsonParse(rawBody)
         IN IF body.threw THEN Threw ELSE parseWebhook(body.value)

\* parseWebhookWithSignature(rawBody, signature, appSecret); a throw carries
\* the error thrown
parseWebhookWithSignature(rawBody, signature, appSecret) ==
    IF ~validateSignature(rawBody, signature, appSecret).value
    THEN [threw |-> TRUE, error |-> Error("Invalid webhook signature")]
    ELSE LET body == JsonParse(rawBody)
         IN IF body.threw THEN Threw ELSE parseWebhook(body.value)

SInit == sbody = "" /\ sheader = "" /\ ssecret = "" /\ sresult = [state |-> "idle"]

\* one call of validateSignature
ValidateSignature(rawBody, signature, appSecret) ==
    /\ sresult.state = "idle"
    /\ sbody' = rawBody
    /\ sheader' = signature
    /\ ssecret' = appSecret
    /\ sresult' = [state |-> "done", op |-> "validateSignature",
                   r |-> validateSignature(rawBody, signature, appSecret)]

CallValidateSignature ==
    \E b \in RawBodies, h \in SignatureHeaders, k \in Secrets : ValidateSignature(b, h, k)

\* one call of parseWebhookWithSignature on a delivery with a JSON body
ParseWebhookWithSignature(rawBody, signature, appSecret) ==
    /\ sresult.state = "idle"
    /\ sbody' = rawBody
    /\ sheader' = signature
    /\ ssecret' = appSecret
    /\ sresult' = [state |-> "done", op |-> "parseWebhookWithSignature",
                   r |-> parseWebhookWithSignature(rawBody, signature, appSecret)]

CallParseWebhookWithSignature ==
    \E b \in JsonBodies, h \in SignatureHeaders, k \in Secrets :
        ParseWebhookWithSignature(b, h, k)

Init == BInit /\ WInit /\ VInit /\ EInit /\ RInit /\ SInit

Next ==
    \/ CallBroadcast /\ UNCHANGED <<wvars, vvars, xvars>>
    \/ IssueBatch /\ UNCHANGED <<wvars, vvars, xvars>>
    \/ SettleSome /\ UNCHANGED <<wvars, vvars, xvars>>
    \/ ResumeBatch /\ UNCHANGED <<wvars, vvars, xvars>>
    \/ DelayElapsed /\ UNCHANGED <<wvars, vvars, xvars>>
    \/ Return /\ UNCHANGED <<wvars, vvars, xvars>>

Spec == Init /\ [][Next]_vars

\* the dispatcher called with any integer batch size, every step of the
\* call being taken in the end: the event loop runs the continuation of a
\* settled await and fires a timer that is due, and every send settles
NextAnySize ==
    \/ CallBroadcastAnySize /\ UNCHANGED <<wvars, vvars, xvars>>
    \/ (batchNo < MaxBatches /\ IssueBatch) /\ UNCHANGED <<wvars, vvars, xvars>>
    \/ SpinBatch /\ UNCHANGED <<wvars, vvars, xvars>>
    \/ SpinOn /\ UNCHANGED <<wvars, vvars, xvars>>
    \/ SettleSome /\ UNCHANGED <<wvars, vvars, xvars>>
    \/ ResumeBatch /\ UNCHANGED <<wvars, vvars, xvars>>
    \/ DelayElapsed /\ UNCHANGED <<wvars, vvars, xvars>>
    \/ Return /\ UNCHANGED <<wvars, vvars, xvars>>

SpecAnySize ==
    /\ Init
    /\ [][NextAnySize]_vars
    /\ WF_bvars(batchNo < MaxBatches /\ IssueBatch)
    /\ WF_bvars(SpinBatch)
    /\ WF_bvars(SpinOn)
    /\ WF_bvars(SettleSome)
    /\ WF_bvars(ResumeBatch)
    /\ WF_bvars(DelayElapsed)
    /\ WF_bvars(Return)

NextParse == CallParseWebhook /\ UNCHANGED <<bvars, vvars, xvars>>
SpecParse == Init /\ [][NextParse]_vars

NextVerify == CallVerifyWebhook /\ UNCHANGED <<bvars, wvars, xvars>>
SpecVerify == Init /\ [][NextVerify]_vars

NextErrors == CallFromApiResponse /\ UNCHANGED <<bvars, wvars, vvars, rvars, svars>>
SpecErrors == Init /\ [][NextErrors]_vars
SpecRequest == Init /\ [][NextRequest]_vars

NextSign ==
    \/ CallValidateSignature /\ UNCHANGED <<bvars, wvars, vvars, evars, rvars>>
    \/ CallParseWebhookWithSignature /\ UNCHANGED <<bvars, wvars, vvars, evars, rvars>>
SpecSign == Init /\ [][NextSign]_vars

(***************************************************************************)
(* Properties of the broadcast dispatcher                                  *)
(***************************************************************************)
N == Len(recipients)
Returned == pc = "done" /\ outcome = "returned"
\* ceil(n / b) for b >= 1
CeilDiv(n, b) == (n + b - 1) \div b
\* the promise of the send issued for position p (1-based) of recipients
SendAt(p) ==
    sends[CHOOSE s \in 1..Len(sends) :
            /\ sends[s].batch = (p - 1) \div batchSize
            /\ sends[s].slot = (p - 1) % batchSize]
Count(seq, e) == Cardinality({k \in 1..Len(seq) : seq[k] = e})
SucceededEntries == {[to |-> r, result |-> v] : r \in Recipients, v \in SendResults}
FailedEntries == {[to |-> r, error |-> e] : r \in Recipients, e \in SendErrors}

\* C1: the call never raises because a send rejected: it ends by returning,
\* with one send issued and settled per recipient and every rejected send
\* recorded in failed under its recipient and its error.
C1_FailuresCollected ==
    /\ outcome # "raised"
    /\ pc = "done" =>
          /\ outcome = "returned"
          /\ Len(sends) = N
          /\ \A s \in 1..Len(sends) :
                /\ sends[s].p.status # "pending"
                /\ sends[s].p.status = "rejected" =>
                      \E k \in 1..Len(failed) :
                          failed[k] = [to |-> sends[s].to, error |-> sends[s].p.reason]
          /\ Len(failed) = Cardinality({s \in 1..Len(sends) : sends[s].p.status = "rejected"})

\* every send of a broadcast of several batches failed, and the call returned
C1_Witness ==
    /\ Returned
    /\ N >= 2
    /\ batchNo >= 2
    /\ Len(failed) = N
    /\ \A s \in 1..Len(sends) : sends[s].p.status = "rejected"

\* C2: on return every position of recipients is accounted for exactly once,
\* under its own recipient: in succeeded with its send's result iff that send
\* fulfilled, in failed with its send's error iff that send rejected.
C2_ExactlyOnceOwnOutcome ==
    Returned =>
        /\ Len(succeeded) + Len(failed) = N
        /\ \A e \in SucceededEntries :
              Count(succeeded, e) =
                Cardinality({p \in 1..N :
                    /\ SendAt(p).p.status = "fulfilled"
                    /\ e = [to |-> recipients[p], result |-> SendAt(p).p.value]})
        /\ \A e \in FailedEntries :
              Count(failed, e) =
                Cardinality({p \in 1..N :
                    /\ SendAt(p).p.status = "rejected"
                    /\ e = [to |-> recipients[p], error |-> SendAt(p).p.reason]})

\* the 2nd of 3 sends failed, in a list of distinct batches and recipients
C2_Witness ==
    /\ Returned
    /\ N = 3
    /\ Len(succeeded) = 2
    /\ Len(failed) = 1
    /\ failed[1].to = recipients[2]
    /\ recipients[1] # recipients[2]
    /\ batchNo = 2

\* C3: the sends are issued one per position, in order, in ceil(n/b)
\* contiguous batches of b (the last one shorter), and the call returns only
\* when every send has settled.
C3_ContiguousBatches ==
    /\ \A s \in 1..Len(sends) :
          /\ s <= N
          /\ sends[s].to = recipients[s]
          /\ sends[s].batch = (s - 1) \div batchSize
          /\ sends[s].slot = (s - 1) % batchSize
    /\ pc \in {"await", "delay"} =>
          /\ Len(sends) = Min(batchNo * batchSize, N)
          /\ batch = SubSeq(recipients, (batchNo - 1) * batchSize + 1,
                            Min(batchNo * batchSize, N))
    /\ pc = "done" =>
          /\ Len(sends) = N
          /\ batchNo = CeilDiv(N, batchSize)
          /\ \A s \in 1..Len(sends) : sends[s].p.status # "pending"

\* three recipients with a duplicate, in two batches, the last one shorter
C3_Witness ==
    /\ Returned
    /\ N = 3
    /\ batchSize = 2
    /\ batchNo = 2
    /\ recipients[1] = recipients[3]
    /\ Len(sends) = 3

\* C4: one pacing delay of delayMs between consecutive batches and none
\* after the last: batch k is issued after k-1 delays when delayMs > 0, the
\* call ends with (batches - 1) delays, and with delayMs = 0 none is taken.
C4_DelayBetweenBatches ==
    /\ \A d \in 1..Len(delays) : delays[d] = delayMs /\ delayMs > 0
    /\ pc = "await" => Len(delays) = (IF delayMs > 0 THEN batchNo - 1 ELSE 0)
    /\ pc = "delay" => Len(delays) = batchNo /\ Len(sends) < N
    /\ pc = "done" =>
          Len(delays) = (IF delayMs > 0 /\ batchNo >= 1 THEN batchNo - 1 ELSE 0)

\* three batches were paced by two delays of the default length
C4_Witness ==
    /\ Returned
    /\ batchNo = 3
    /\ delayMs = DefaultDelayMs
    /\ Len(delays) = 2

(***************************************************************************)
(* Properties of the webhook normalizer                                    *)
(***************************************************************************)
Parsed == wresult.state = "done"
\* the body fails the envelope: it is null or undefined, not an object, has
\* an object field other than the discriminator, or no list as entry
NotEnvelope(b) ==
    \/ b.t \in {"null", "undefined"}
    \/ b.t \notin {"object", "array"}
    \/ b.t = "array"
    \/ b.t = "object" /\ ("object" \notin DOMAIN b.f \/ b.f.object # Str(WABA))
    \/ b.t = "object" /\ ("entry" \notin DOMAIN b.f \/ b.f.entry.t # "array")
\* the list held by a field of a well-formed value, empty when it is absent
ListOf(v, k) == IF v.f[k] = Undef THEN <<>> ELSE v.f[k].v
\* the value blocks of a well-formed payload, by entry and change index
BlockIds(b) ==
    {<<e, c>> \in (1..MaxEntries + 1) \X (1..MaxChanges + 1) :
        e <= Len(b.f.entry.v) /\ c <= Len(b.f.entry.v[e].f.changes.v)}
BlockAt(b, id) == b.f.entry.v[id[1]].f.changes.v[id[2]].f.value
TheValue(b) == BlockAt(b, <<1, 1>>)
EventsOfType(events, type) == {k \in 1..Len(events) : events[k].type = type}

\* C5: a body that fails the envelope yields the empty list, without a throw.
C5_NonEnvelopeYieldsEmpty ==
    Parsed /\ NotEnvelope(wbody) => wresult.r = Ok(<<>>)

\* the discriminator is right and entry is missing: the empty list came back
C5_Witness ==
    /\ Parsed
    /\ wbody = Obj([object |-> Str(WABA)])
    /\ wresult.r = Ok(<<>>)

\* C6: parseWebhook never throws, whatever the input.
C6_NeverThrows ==
    Parsed => ~wresult.r.threw

\* C7: one value block with N messages, M statuses and no value-level errors
\* yields N+M events: the messages in array order, then the statuses in
\* array order, event k carrying the k-th source element.
C7_MessagesThenStatuses ==
    Parsed /\ wbody \in SinglePayloads /\ ListOf(TheValue(wbody), "errors") = <<>> =>
        LET ms == ListOf(TheValue(wbody), "messages")
            ss == ListOf(TheValue(wbody), "statuses")
        IN /\ ~wresult.r.threw
           /\ Len(wresult.r.value) = Len(ms) + Len(ss)
           /\ \A k \in 1..Len(ms) :
                /\ wresult.r.value[k].type = "message"
                /\ wresult.r.value[k].message = ms[k]
           /\ \A k \in 1..Len(ss) :
                /\ wresult.r.value[Len(ms) + k].type = "status"
                /\ wresult.r.value[Len(ms) + k].status = ss[k]

\* two different messages and two different statuses gave four events
C7_Witness ==
    /\ Parsed
    /\ wbody \in SinglePayloads
    /\ ListOf(TheValue(wbody), "errors") = <<>>
    /\ LET ms == ListOf(TheValue(wbody), "messages")
           ss == ListOf(TheValue(wbody), "statuses")
       IN /\ Len(ms) = 2 /\ ms[1] # ms[2]
          /\ Len(ss) = 2 /\ ss[1] # ss[2]
    /\ ~wresult.r.threw
    /\ Len(wresult.r.value) = 4

\* the contact the claim names for a message from `from` in a change with
\* the contacts cs
ExpectedContact(cs, from) ==
    LET matching == {k \in 1..Len(cs) : cs[k].f.wa_id = from}
    IN IF matching # {}
       THEN cs[CHOOSE k \in matching : \A l \in matching : k <= l]
       ELSE IF Len(cs) > 0 THEN cs[1]
       ELSE Obj([profile |-> Obj([name |-> Str("")]), wa_id |-> from])

\* C8: a message event carries the first contact whose wa_id is the
\* message's from; failing that the first contact of the list; failing that
\* (list empty or absent) a contact with an empty name and wa_id = from.
C8_ContactResolution ==
    Parsed /\ wbody \in SinglePayloads =>
        LET ms == ListOf(TheValue(wbody), "messages")
            cs == ListOf(TheValue(wbody), "contacts")
        IN /\ ~wresult.r.threw
           /\ \A k \in 1..Len(ms) :
                /\ wresult.r.value[k].type = "message"
                /\ wresult.r.value[k].contact = ExpectedContact(cs, ms[k].f.from)

\* of two messages the first had no matching contact and got the first of
\* the list, the second got its own contact, which is not the first
C8_Witness ==
    /\ Parsed
    /\ wbody \in SinglePayloads
    /\ LET ms == ListOf(TheValue(wbody), "messages")
           cs == ListOf(TheValue(wbody), "contacts")
       IN /\ Len(ms) = 2 /\ Len(cs) = 2
          /\ \A k \in 1..2 : cs[k].f.wa_id # ms[1].f.from
          /\ cs[2].f.wa_id = ms[2].f.from
          /\ wresult.r.value[1].contact = cs[1]
          /\ wresult.r.value[2].contact = cs[2]

\* C9: a value block gives one error event, carrying its whole errors list,
\* when that list is present and non-empty, and none otherwise; the errors
\* inside a status stay in the status event; no error event is empty.
C9_OneErrorEventPerBlock ==
    /\ Parsed /\ ~wresult.r.threw =>
          \A k \in EventsOfType(wresult.r.value, "error") :
              Len(wresult.r.value[k].errors.v) > 0
    /\ Parsed /\ wbody \in SinglePayloads \cup BlockPayloads =>
          /\ ~wresult.r.threw
          /\ Cardinality(EventsOfType(wresult.r.value, "error")) =
               Cardinality({id \in BlockIds(wbody) :
                               ListOf(BlockAt(wbody, id), "errors") # <<>>})
    /\ Parsed /\ wbody \in SinglePayloads =>
          LET es == TheValue(wbody).f.errors
              ms == ListOf(TheValue(wbody), "messages")
              ss == ListOf(TheValue(wbody), "statuses")
          IN /\ \A k \in EventsOfType(wresult.r.value, "error") :
                   k = Len(ms) + Len(ss) + 1 /\ wresult.r.value[k].errors = es
             /\ \A k \in 1..Len(ss) : wresult.r.value[Len(ms) + k].status = ss[k]

\* a block with a failed status (errors nested in it) and two value-level
\* errors gave one error event, with both
C9_Witness ==
    /\ Parsed
    /\ wbody \in SinglePayloads
    /\ TheValue(wbody).f.statuses = Arr(<<StatusFailed>>)
    /\ TheValue(wbody).f.errors = Arr(<<Err1, Err2>>)
    /\ Cardinality(EventsOfType(wresult.r.value, "error")) = 1
    /\ wresult.r.value[Len(wresult.r.value)].errors = Arr(<<Err1, Err2>>)

Built == eresult.state = "done"
\* the field k of the vendor error object of the body, undefined when the
\* body has no such object or the object no such field
VendorField(b, k) ==
    IF b.t = "object" /\ "error" \in DOMAIN b.f /\ b.f.error.t = "object"
       /\ k \in DOMAIN b.f.error.f
    THEN b.f.error.f[k]
    ELSE Undef
Present(v) == v # Undef
NoVendorField(b) ==
    \A k \in {"message", "code", "error_subcode", "fbtrace_id"} : ~Present(VendorField(b, k))

\* C17: fromApiResponse never throws and returns one error with every field
\* set, httpStatus being the status passed in; with every vendor field
\* missing it has code 0, title "unknown", the fallback message, no details.
C17_AlwaysOneFullError ==
    Built =>
        /\ ~eresult.r.threw
        /\ eresult.r.value.name = "WhatsAppError"
        /\ eresult.r.value.httpStatus = estatus
        /\ eresult.r.value.code.t = "number"
        /\ eresult.r.value.title.t = "string" /\ eresult.r.value.title.v # ""
        /\ eresult.r.value.message.t = "string" /\ eresult.r.value.message.v # ""
        /\ eresult.r.value.details.t \in {"undefined", "string"}
        /\ NoVendorField(ebody) =>
              eresult.r.value =
                [name |-> "WhatsAppError", message |-> Str("Unknown WhatsApp API error"),
                 code |-> Num(0), title |-> Str("unknown"), httpStatus |-> estatus,
                 details |-> Undef]

\* a null body with status 500 gave the all-defaults error
C17_Witness ==
    /\ Built
    /\ ebody = Null
    /\ estatus = 500
    /\ ~eresult.r.threw
    /\ eresult.r.value.code = Num(0)
    /\ eresult.r.value.title = Str("unknown")
    /\ eresult.r.value.httpStatus = 500

\* C18: code = vendor code or 0; title = "{code}/{subcode}" whenever a
\* sub-code is present (sub-code 0 and a missing code included), else the
\* string form of the code, else "unknown", the code in it always being the
\* error's code field; message = vendor message or the fallback; details =
\* "fbtrace_id: {id}" when a trace id is present, else absent.
C18_FieldDerivation ==
    Built =>
        LET code == VendorField(ebody, "code")
            sub == VendorField(ebody, "error_subcode")
            msg == VendorField(ebody, "message")
            trace == VendorField(ebody, "fbtrace_id")
            e == eresult.r.value
        IN /\ e.code = (IF Present(code) THEN code ELSE Num(0))
           /\ e.title = (IF Present(sub)
                         THEN Str(ToString(e.code.v) \o "/" \o ToString(sub.v))
                         ELSE IF Present(code) THEN Str(ToString(code.v))
                         ELSE Str("unknown"))
           /\ e.message = (IF Present(msg) /\ msg # Str("") THEN msg
                           ELSE Str("Unknown WhatsApp API error"))
           /\ e.details = (IF Present(trace) THEN Str("fbtrace_id: " \o trace.v) ELSE Undef)

(***************************************************************************)
(* Properties of the request pipeline                                      *)
(***************************************************************************)
\* the invocation of request made last has ended after fetch resolved
Answered == rpc = "idle" /\ rop.fetched.state = "resolved"
\* the invocation of request made last has ended after fetch rejected
Unanswered == rpc = "idle" /\ rop.fetched.state = "rejected"
Response == rop.fetched.response
Success == 200 <= Response.status /\ Response.status < 300
RaisedWhatsAppError == routcome.kind = "raised" /\ routcome.error.name = "WhatsAppError"
JsonContentTypes == {Str("application/json"), Str("application/json; charset=utf-8")}
Decodable == ~Response.json.threw

\* C13: a response whose status is outside [200,300) makes request raise the
\* WhatsAppError fromApiResponse builds from the decoded body, or from {} when
\* the body cannot be decoded (code 0, fallback message), with httpStatus the
\* response status; request never returns a result then.
C13_FailureStatusRaises ==
    (Answered /\ ~Success) =>
        /\ RaisedWhatsAppError
        /\ routcome.error.httpStatus = Response.status
        /\ routcome.error =
              fromApiResponse(IF Decodable THEN Response.json.value ELSE EmptyObj,
                              Response.status).value
        /\ (~Decodable \/ Response.json.value = EmptyObj) =>
              /\ routcome.error.code = Num(0)
              /\ routcome.error.message = Str("Unknown WhatsApp API error")
C13_Witness ==
    /\ Answered
    /\ Response.status = 500
    /\ ~Decodable
    /\ RaisedWhatsAppError
    /\ routcome.error.code = Num(0)
    /\ routcome.error.httpStatus = 500

C15_OneCallPerInvocation ==
    /\ fetchCount = invocations
    /\ rop.fetched.state # "none" => fetchCount = rop.before + 1
C15_Witness ==
    /\ invocations = 2
    /\ fetchCount = 2
    /\ Answered
    /\ Response.status = 500

\* C16: every call of fetch carries the header Authorization: Bearer
\* {accessToken of the client}, for every method, body kind and set of extra
\* headers, extra headers with an Authorization key included.
C16_AlwaysBearer ==
    fetchCount > 0 => lastFetch.headers["Authorization"] = "Bearer " \o client.accessToken

\* C19: an operation that needs the account identifier, invoked on a client
\* without wabaId, fails with a "wabaId is required ..." error and calls
\* fetch not at all; with wabaId set it calls fetch exactly once.
C19_WabaIdPrecondition ==
    rop.op \in WabaOps =>
        IF client.wabaId \in {Undef, Str("")}
        THEN /\ routcome.kind = "raised"
             /\ routcome.error.name = "Error"
             /\ SubSeq(routcome.error.message.v, 1, 18) = "wabaId is required"
             /\ rop.fetched.state = "none"
             /\ fetchCount = rop.before
        ELSE /\ rop.fetched.state # "none"
             /\ fetchCount = rop.before + 1
             /\ Includes(lastFetch.url, "/" \o client.wabaId.v)
C19_Witness ==
    /\ rop.op = "createFlow"
    /\ client.wabaId = Undef
    /\ routcome = Rejects(Error("wabaId is required for flow management"))
    /\ rop.before = 1
    /\ fetchCount = 1

\* C20 as stated: every invocation of request ends with a returned result or
\* with a raised WhatsAppError, for every status and body, for a rejected
\* fetch and for a 2xx response whose JSON body fails to decode.
C20_ResultOrTypedError ==
    (Answered \/ Unanswered) => (routcome.kind = "returned" \/ RaisedWhatsAppError)

\* C20 amended: every invocation of request ends in exactly one of three
\* ways: a returned result; a raised WhatsAppError built by fromApiResponse,
\* exactly when a response arrives with a status outside [200,300); or the
\* error of the transport or of the JSON decoder, raised unchanged, exactly
\* when fetch rejects or a 2xx response with a JSON content type fails to
\* decode.
C20_ThreeOutcomes ==
    (Answered \/ Unanswered) =>
        /\ routcome.kind \in {"returned", "raised"}
        /\ RaisedWhatsAppError <=> (Answered /\ ~Success)
        /\ routcome = Rejects(TransportError) <=> Unanswered
        /\ routcome = Rejects(DecodeError) <=>
              (Answered /\ Success /\ Response.contentType \in JsonContentTypes /\ ~Decodable)
        /\ routcome.kind = "returned" <=>
              (Answered /\ Success /\ (Response.contentType \in JsonContentTypes => Decodable))
C20_Witness ==
    /\ Unanswered
    /\ routcome = Rejects(TransportError)
    /\ fetchCount = 1

(***************************************************************************)
(* Properties of the webhook signature check                               *)
(***************************************************************************)
Validated == sresult.state = "done" /\ sresult.op = "validateSignature"
Wrapped == sresult.state = "done" /\ sresult.op = "parseWebhookWithSignature"

\* C11: validateSignature returns a boolean and never throws; it returns
\* true exactly when the header is "sha256=" followed by the hex HMAC-SHA256
\* of the body under the secret: a body signed and verified with the same
\* secret gives true, a signature made on another body or with another
\* secret gives false, and a hex digest without the prefix gives false, the
\* correct one included.
C11_SignThenVerify ==
    Validated =>
        /\ ~sresult.r.threw
        /\ sresult.r.value \in BOOLEAN
        /\ sresult.r.value <=> (sheader = Sign(sbody, ssecret))
        /\ \A b \in RawBodies, k \in Secrets :
              /\ (sheader = Sign(b, k) /\ (b # sbody \/ k # ssecret)) => ~sresult.r.value
              /\ sheader = HmacSha256Hex(k, b) => ~sresult.r.value
        /\ (Len(sheader) < 7 \/ SubSeq(sheader, 1, 7) # "sha256=") => ~sresult.r.value
C11_Witness ==
    /\ Validated
    /\ sbody = "test"
    /\ sheader = HmacSha256Hex(ssecret, sbody)
    /\ sresult.r = Ok(FALSE)

\* C12: parseWebhookWithSignature gives the normalizer's result for the body
\* when the signature check passes; when the check fails it raises "Invalid
\* webhook signature" and never returns a list, so that a rejected delivery
\* differs from an authentic delivery without events.
C12_RejectedIsRaised ==
    Wrapped =>
        IF sheader = Sign(sbody, ssecret)
        THEN sresult.r = parseWebhook(JsonParse(sbody).value)
        ELSE /\ sresult.r.threw
             /\ "error" \in DOMAIN sresult.r
             /\ sresult.r.error.message = Str("Invalid webhook signature")
             /\ sresult.r # parseWebhook(JsonParse(sbody).value)
C12_Witness ==
    /\ Wrapped
    /\ sbody = JsonStringify(Envelope(<<>>))
    /\ sheader = "sha256=invalid"
    /\ sresult.r.threw
    /\ parseWebhook(JsonParse(sbody).value) = Ok(<<>>)

(***************************************************************************)
(* Properties of the normalizer on whole payloads                          *)
(***************************************************************************)
RECURSIVE Flatten(_)
\* the concatenation of a sequence of sequences
Flatten(ss) == IF ss = <<>> THEN <<>> ELSE Head(ss) \o Flatten(Tail(ss))
\* the value blocks of a well-formed payload, in document order
BlocksOf(b) ==
    Flatten([e \in 1..Len(b.f.entry.v) |->
                [c \in 1..Len(b.f.entry.v[e].f.changes.v) |->
                    b.f.entry.v[e].f.changes.v[c].f.value]])
\* what the events of one value block are made from, in the order claimed:
\* its messages, its statuses, its errors list when that is not empty
SourcesOf(v) ==
    [k \in 1..Len(ListOf(v, "messages")) |->
        [type |-> "message", from |-> ListOf(v, "messages")[k], metadata |-> v.f.metadata]]
    \o [k \in 1..Len(ListOf(v, "statuses")) |->
        [type |-> "status", from |-> ListOf(v, "statuses")[k], metadata |-> v.f.metadata]]
    \o (IF ListOf(v, "errors") # <<>>
        THEN <<[type |-> "error", from |-> v.f.errors, metadata |-> v.f.metadata]>>
        ELSE <<>>)
SourcesOfAll(b) == Flatten([n \in 1..Len(BlocksOf(b)) |-> SourcesOf(BlocksOf(b)[n])])
\* what an event was made from
Payload(ev) ==
    CASE ev.type = "message" -> ev.message
      [] ev.type = "status" -> ev.status
      [] OTHER -> ev.errors
\* a delivery metadata: both of its fields are there
IsMetadata(m) ==
    /\ m.t = "object"
    /\ {"display_phone_number", "phone_number_id"} \subseteq DOMAIN m.f
    /\ m.f.display_phone_number.t = "string"
    /\ m.f.phone_number_id.t = "string"
\* payloads whose entries, changes and lists are well-formed and whose
\* metadata may be anything
MetadataPayloads ==
    {Envelope(<<Entry(<<Change(Obj([BaseValue EXCEPT !.metadata = j]))>>)>>) : j \in Junk}
NestedPayloads == SinglePayloads \cup BlockPayloads \cup MetadataPayloads

\* C21: every event carries the metadata of the value block it was made
\* from, never that of another change or entry and never an absent one, for
\* every payload that passes the envelope check.
C21_EventsCarryOwnMetadata ==
    /\ Parsed /\ ~NotEnvelope(wbody) /\ ~wresult.r.threw =>
          \A k \in 1..Len(wresult.r.value) : IsMetadata(wresult.r.value[k].metadata)
    /\ Parsed /\ wbody \in NestedPayloads =>
          /\ ~wresult.r.threw
          /\ Len(wresult.r.value) = Len(SourcesOfAll(wbody))
          /\ \A k \in 1..Len(wresult.r.value) :
                wresult.r.value[k].metadata = SourcesOfAll(wbody)[k].metadata

\* C27: the events come in document order, block after block: the messages
\* of a value, then its statuses, then its error event, before anything of
\* the next change or entry; nothing is merged or dropped as a duplicate, so
\* that there are as many events as messages, statuses and non-empty errors
\* lists in all the blocks.
C27_DocumentOrder ==
    Parsed /\ wbody \in SinglePayloads \cup BlockPayloads =>
        /\ ~wresult.r.threw
        /\ Len(wresult.r.value) = Len(SourcesOfAll(wbody))
        /\ \A k \in 1..Len(wresult.r.value) :
              /\ wresult.r.value[k].type = SourcesOfAll(wbody)[k].type
              /\ Payload(wresult.r.value[k]) = SourcesOfAll(wbody)[k].from
              /\ wresult.r.value[k].metadata = SourcesOfAll(wbody)[k].metadata

\* two entries of two changes each, the same two blocks in both: the events
\* of the second entry repeat those of the first
C27_Witness ==
    /\ Parsed
    /\ wbody \in BlockPayloads
    /\ Len(wbody.f.entry.v) = 2
    /\ Len(BlocksOf(wbody)) = 4
    /\ BlocksOf(wbody)[1] = BlocksOf(wbody)[3]
    /\ BlocksOf(wbody)[1] # BlocksOf(wbody)[2]
    /\ BlocksOf(wbody)[2] = BlocksOf(wbody)[4]
    /\ ~wresult.r.threw
    /\ Len(wresult.r.value) = 8
    /\ wresult.r.value[3].type = "status"
    /\ wresult.r.value[3] = wresult.r.value[7]

(***************************************************************************)
(* Properties of the dispatcher's schedule                                 *)
(***************************************************************************)
InFlight == {s \in 1..Len(sends) : sends[s].p.status = "pending"}
Appended == Len(succeeded) + Len(failed)

\* C22: the batches of one call are strictly sequential: when the sends of a
\* batch are issued, every send of the batches before has settled, its
\* outcome is in the result lists, and with delayMs > 0 one pacing delay per
\* earlier batch has been taken and has elapsed.
C22_StrictlySequential ==
    [][Len(sends') > Len(sends) =>
          /\ pc = "loop"
          /\ InFlight = {}
          /\ Appended = Len(sends)
          /\ Len(delays) = (IF delayMs > 0 THEN batchNo ELSE 0)
          /\ \A s \in 1..Len(sends) : sends[s].batch < batchNo
          /\ \A s \in (Len(sends) + 1)..Len(sends') : sends'[s].batch = batchNo]_vars

\* the second batch is in flight after a first batch with a failure and one
\* pacing delay
C22_Witness ==
    /\ pc = "await"
    /\ batchNo = 2
    /\ batchSize = 2
    /\ Len(delays) = 1
    /\ Len(failed) = 1
    /\ Len(succeeded) = 1
    /\ InFlight = {3}

\* C23: while a send of a batch is in flight the whole batch has been issued
\* and the result lists hold the outcomes of the earlier batches only; the
\* outcomes of a batch are appended together, once none of its sends is in
\* flight any more.
C23_NoPartialResults ==
    /\ [](InFlight # {} =>
            /\ pc = "await"
            /\ Len(BatchSends) = Len(batch)
            /\ \A j \in 1..Len(batch) : BatchSends[j].to = batch[j]
            /\ InFlight \subseteq (Len(sends) - Len(batch) + 1)..Len(sends)
            /\ Appended = Len(sends) - Len(batch))
    /\ [][(succeeded' # succeeded \/ failed' # failed) =>
            /\ InFlight = {}
            /\ Appended = Len(sends) - Len(batch)
            /\ Len(succeeded') + Len(failed') = Len(sends)]_vars

\* of a batch of two sends the second has succeeded and the first is in
\* flight: nothing of the batch is in the lists
C23_Witness ==
    /\ pc = "await"
    /\ N = 3
    /\ batchSize = 2
    /\ batchNo = 1
    /\ sends[2].p.status = "fulfilled"
    /\ InFlight = {1}
    /\ Appended = 0

\* the outcomes of the sends that have been collected, in the order of the
\* positions of their recipients
CollectedSends == SubSeq(sends, 1, Appended)
FulfilledInOrder ==
    LET IsFulfilled(x) == x.p.status = "fulfilled"
        sel == SelectSeq(CollectedSends, IsFulfilled)
    IN [k \in 1..Len(sel) |-> [to |-> sel[k].to, result |-> sel[k].p.value]]
RejectedInOrder ==
    LET IsRejected(x) == x.p.status = "rejected"
        sel == SelectSeq(CollectedSends, IsRejected)
    IN [k \in 1..Len(sel) |-> [to |-> sel[k].to, error |-> sel[k].p.reason]]

\* C24: succeeded and failed are each in the order of the positions in
\* recipients, earlier batches first and in batch order within a batch,
\* whatever the order in which the sends completed.
C24_ResultsInRecipientOrder ==
    /\ Appended <= Len(sends)
    /\ \A s \in 1..Len(sends) : s <= N /\ sends[s].to = recipients[s]
    /\ succeeded = FulfilledInOrder
    /\ failed = RejectedInOrder
    /\ Returned => Appended = N

\* positions 1 and 3 succeeded and position 2 failed, in two batches and for
\* three different outcomes
C24_Witness ==
    /\ Returned
    /\ N = 3
    /\ batchSize = 2
    /\ recipients[1] # recipients[2]
    /\ succeeded = <<[to |-> recipients[1], result |-> "wamid.2"],
                     [to |-> recipients[3], result |-> "wamid.1"]>>
    /\ failed = <<[to |-> recipients[2], error |-> 131]>>

\* the sends and the delays a call with recipients rs, batch size b >= 1
\* and delay ms makes
ScheduledSends(rs, b) ==
    [p \in 1..Len(rs) |-> [to |-> rs[p], batch |-> (p - 1) \div b, slot |-> (p - 1) % b]]
ScheduledDelays(rs, b, ms) ==
    IF ms > 0 /\ Len(rs) > 0 THEN [d \in 1..(CeilDiv(Len(rs), b) - 1) |-> ms] ELSE <<>>
IssuedSchedule == [s \in 1..Len(sends) |-> [to |-> sends[s].to, batch |-> sends[s].batch,
                                             slot |-> sends[s].slot]]
IsPrefix(a, b) == Len(a) <= Len(b) /\ a = SubSeq(b, 1, Len(a))

\* C25: the sends, their batches and the pacing delays of a call are fixed
\* by recipients, batchSize and delayMs alone: whatever the sends settle
\* with, the call issues the same sends in the same batches, takes the same
\* delays, and ends only after all of them, without raising.
C25_ScheduleIgnoresOutcomes ==
    pc # "idle" =>
        /\ IsPrefix(IssuedSchedule, ScheduledSends(recipients, batchSize))
        /\ IsPrefix(delays, ScheduledDelays(recipients, batchSize, delayMs))
        /\ outcome # "raised"
        /\ pc = "done" =>
              /\ IssuedSchedule = ScheduledSends(recipients, batchSize)
              /\ delays = ScheduledDelays(recipients, batchSize, delayMs)

\* three batches of one send, all failed, with both error codes, and two
\* delays
C25_Witness ==
    /\ Returned
    /\ N = 3
    /\ batchSize = 1
    /\ delayMs = 5
    /\ delays = <<5, 5>>
    /\ Len(failed) = 3
    /\ failed[1].error # failed[2].error

\* C29: with batchSize b >= 1 there are never more than b sends in flight,
\* and the sends in flight at one moment are of one batch.
C29_BoundedInFlight ==
    batchSize >= 1 =>
        /\ Cardinality(InFlight) <= batchSize
        /\ \A s \in InFlight : sends[s].batch = batchNo - 1
        /\ \A s, t \in InFlight : sends[s].batch = sends[t].batch

\* a batch of two is in flight with a third recipient waiting
C29_Witness ==
    /\ pc = "await"
    /\ N = 3
    /\ batchSize = 2
    /\ Cardinality(InFlight) = 2
    /\ Len(sends) = 2

\* C30: there is no timeout and no cancellation: for as long as a send stays
\* in flight the call does not end, no further send is issued and nothing is
\* appended to the result lists, the settled outcomes of the same batch
\* included.
C30_NoTimeout ==
    /\ [](InFlight # {} => pc = "await" /\ outcome = "none")
    /\ [][(\E s \in InFlight : sends'[s].p.status = "pending") =>
            /\ pc' = "await"
            /\ outcome' = "none"
            /\ Len(sends') = Len(sends)
            /\ succeeded' = succeeded
            /\ failed' = failed
            /\ delays' = delays]_vars

\* of a first batch of two the second send has failed and the first is in
\* flight, a third recipient waiting: nothing has been appended
C30_Witness ==
    /\ pc = "await"
    /\ N = 3
    /\ batchSize = 2
    /\ InFlight = {1}
    /\ sends[2].p.status = "rejected"
    /\ failed = <<>>
    /\ Len(sends) = 2

(***************************************************************************)
(* Properties of the body encoding                                         *)
(***************************************************************************)
\* the call of fetch made by the invocation of request recorded in rop
Called == rop.fetched.state # "none"
\* the Content-Type among the caller's extra headers, "" when there is none
CallerContentType ==
    IF rop.options.headers.t = "object" /\ "Content-Type" \in DOMAIN rop.options.headers.f
    THEN rop.options.headers.f["Content-Type"]
    ELSE ""
SentContentType ==
    IF "Content-Type" \in DOMAIN lastFetch.headers THEN lastFetch.headers["Content-Type"]
    ELSE ""
\* the JSON text of the bodies the callers pass
JsonTextOf(body) ==
    CASE body = Null -> "null"
      [] body = Obj([messaging_product |-> Str("whatsapp")]) ->
            "{\"messaging_product\":\"whatsapp\"}"
      [] body = Obj([name |-> Str("hello")]) -> "{\"name\":\"hello\"}"
      [] OTHER -> "{\"name\":\"hello\",\"categories\":[\"OTHER\"]}"
MethodGiven == rop.options.method.t = "string" /\ rop.options.method.v # ""
FormAndJsonCases ==
    /\ lastFetch.method = (IF MethodGiven THEN rop.options.method.v ELSE "POST")
    /\ rop.options.body.t = "formdata" =>
          /\ lastFetch.body = rop.options.body
          /\ SentContentType = CallerContentType
    /\ rop.options.body.t \notin {"formdata", "undefined"} =>
          /\ lastFetch.body = Str(JsonTextOf(rop.options.body))
          /\ SentContentType = "application/json"

\* C26 as stated: a form body is passed on unchanged and the pipeline sets
\* no Content-Type for it; any other defined body is sent as JSON text with
\* Content-Type: application/json, a caller's Content-Type being overridden;
\* an absent body gives a call with no body and no Content-Type; the method
\* is the caller's, or POST when none is given.
C26_ThreeEncodings ==
    Called =>
        /\ FormAndJsonCases
        /\ rop.options.body.t = "undefined" =>
              /\ lastFetch.body = Undef
              /\ SentContentType = ""

\* C26 amended: as stated, except that with an absent body, as with a form
\* body, the pipeline sets no Content-Type of its own and a Content-Type
\* among the caller's extra headers is sent on unchanged.
C26_ThreeEncodingsCallerTypeKept ==
    Called =>
        /\ FormAndJsonCases
        /\ rop.options.body.t = "undefined" =>
              /\ lastFetch.body = Undef
              /\ SentContentType = CallerContentType

\* a form was sent by POST, unchanged and without a Content-Type
C26_Witness ==
    /\ Called
    /\ rop.options.body = FormData("file")
    /\ rop.options.method = Undef
    /\ lastFetch.method = "POST"
    /\ lastFetch.body = FormData("file")
    /\ "Content-Type" \notin DOMAIN lastFetch.headers

(***************************************************************************)
(* Termination of the dispatcher                                           *)
(***************************************************************************)
\* C28: a call of broadcastTemplate returns in the end, every send it has
\* issued having settled, for every recipient list and every integer
\* batchSize, zero and negative ones included.
C28_EventuallyReturns ==
    (pc # "idle") ~> (pc = "done" /\ outcome = "returned" /\ InFlight = {})

====
